---- MODULE Spec2Model ----
(***************************************************************************)
(* Model of unstructured/partition/utils/ocr_models/gpt4o_ocr.py:          *)
(* the OCRAgentGPT4O constructor and its three extraction methods          *)
(* (get_text_from_image, get_layout_from_image,                            *)
(* get_layout_elements_from_image), one invocation at a time.              *)
(*                                                                         *)
(* What the environment decides is drawn nondeterministically: the value   *)
(* of OPENAI_API_KEY, the image's dimensions, the byte length of each PNG  *)
(* encoding (it depends on pixel content, compression and metadata), and   *)
(* the service's answer (a transport error, or a message content).         *)
(***************************************************************************)
EXTENDS Integers, Sequences, FiniteSets, TLC

\* ---------------------------------------------------------------- bounds
\* largest width / height of a starting image
MaxDim == 3
\* most paragraphs in a JSON array of the response
MaxParagraphs == 2
\* most "key": value members written in a JSON object of the response
MaxPairs == 2
\* most accesses of the lazyproperty on one instance
MaxAccesses == 3
\* most names in the list given to requires_dependencies
MaxDeps == 2

\* ------------------------------------------------------------- constants
\* the threshold of `while img_size_mb > 20`
MaxMb == 20

Threshold == MaxMb * 1024 * 1024

\* raw PNG byte lengths the encoder may produce: a small file and the two
\* lengths around the threshold (15728640 bytes encode to exactly 20 MiB of
\* base64 text, one byte more to 4 characters above it)
PngLens == {100, 15728640, 15728641}

Paragraphs == {"a", "b"}
Keys == {"paragraphs", "text", "lines"}

\* ------------------------------------------------------ response content
SeqsUpTo(S, n) == UNION {[1..k -> S] : k \in 0..n}

\* a JSON value that can stand under a key: an array of paragraph strings,
\* a string (its characters), a nested object (its keys) or a number
JsonValues ==
    {[t |-> "arr", items |-> s] : s \in SeqsUpTo(Paragraphs, MaxParagraphs)}
    \cup {[t |-> "str", items |-> <<"a", "b">>],
          [t |-> "obj", items |-> <<"k">>],
          [t |-> "num", items |-> <<>>]}

JsonPairs == [key : Keys, val : JsonValues]

\* the members written after the first one: the code reads one value only,
\* so these carry two values, enough to tell which member a repeated key
\* keeps
LaterPairs ==
    [key : Keys, val : {[t |-> "num", items |-> <<>>],
                        [t |-> "arr", items |-> <<"b">>]}]

JsonObjects ==
    {<<>>} \cup {<<p>> \o rest : p \in JsonPairs,
                                rest \in SeqsUpTo(LaterPairs, MaxPairs - 1)}

\* response.choices[0].message.content: None, "", a text that is not JSON,
\* or a JSON text (an object, written as its members in order, or a
\* top-level array or string)
NoResponse == [kind |-> "pending", top |-> "-", pairs |-> <<>>]
EmptyStr == [kind |-> "empty", top |-> "-", pairs |-> <<>>]
Contents ==
    {[kind |-> "null", top |-> "-", pairs |-> <<>>], EmptyStr,
     [kind |-> "invalid", top |-> "-", pairs |-> <<>>],
     [kind |-> "json", top |-> "arr", pairs |-> <<>>],
     [kind |-> "json", top |-> "str", pairs |-> <<>>]}
    \cup {[kind |-> "json", top |-> "obj", pairs |-> ps] :
             ps \in JsonObjects}

\* `not response.choices[0].message.content`
Falsy(c) == c.kind \in {"null", "empty"}

\* ---------------------------------------------------------------- state
VARIABLES
    environ,      \* os.environ restricted to OPENAI_API_KEY
    constructed,  \* "no", "ok" or the exception __init__ raised
    client,       \* self.client: NoClient or [api_key |-> ...]
    op,           \* the method being executed
    pc,           \* its position
    image,        \* the local `image`: [width, height]
    encoded_len,  \* len(encoded_image)
    encodes,      \* history: the payload length of each encoding
    resizes,      \* history: [from, to] of each resize
    sent,         \* history: the completion requests issued
    response,     \* response.choices[0].message.content
    outcome,      \* "none", "returned" or "raised"
    exc,          \* the exception raised and the step that raised it
    text,         \* return value of get_text_from_image
    regions,      \* return value of get_layout_from_image
    elements,     \* return value of get_layout_elements_from_image
    \* utils.lazyproperty, one decorated method on a class with two
    \* instances:
    \*   dict   obj.__dict__[name] of each instance, or Absent
    \*   evals  history: what each evaluation of fget(obj) returned
    \*   gets   history: what each access obj.fget returned
    \*   ret    what the last call of __get__ returned
    \*   exc    the exception the last call of __set__ raised
    lz,
    \* utils.requires_dependencies, one decorated function:
    \*   arg      the arguments `dependencies` and `extras`
    \*   import   what importlib.import_module does for each name
    \*   deps     the closure's `dependencies` after normalisation
    \*   pc       position in the wrapper
    \*   i        index of `dep` in the for loop
    \*   missing  missing_deps
    \*   calls    how often the wrapped function ran in this invocation
    \*   result   how the wrapper ended
    rd

ocr_vars == <<environ, constructed, client, op, pc, image, encoded_len,
              encodes, resizes, sent, response, outcome, exc, text, regions,
              elements>>

util_vars == <<lz, rd>>

vars == <<ocr_vars, lz, rd>>

NoClient == [api_key |-> "<none>"]
NoImage == [width |-> 0, height |-> 0]
NoExc == [type |-> "-", at |-> "-"]

\* ---- utils.lazyproperty: instances and the values fget can return
Objs == {"o1", "o2"}
Absent == "<absent>"
PyValues == {"None", "0", "False", "''", "obj"}

LzInit ==
    lz = [dict |-> [o \in Objs |-> Absent],
          evals |-> [o \in Objs |-> <<>>],
          gets |-> [o \in Objs |-> <<>>],
          ret |-> "-",
          exc |-> "-"]

\* ---- utils.requires_dependencies: arguments and import outcomes
DepNames == {"a", "b"}

\* importlib.import_module(name) succeeds, raises an ImportError whose
\* repr contains the names in `mentions`, or raises another exception
ImportOutcomes ==
    {[kind |-> "ok", mentions |-> {}], [kind |-> "OtherError", mentions |-> {}]}
    \cup {[kind |-> "ImportError", mentions |-> m] : m \in SUBSET DepNames}

\* `dependencies` is a str or a list of str; `extras` is None or a name
RdArgs ==
    {[isstr |-> TRUE, str |-> n, list |-> <<>>, extras |-> x] :
        n \in DepNames, x \in {"None", "pdf"}}
    \cup {[isstr |-> FALSE, str |-> "", list |-> l, extras |-> x] :
        l \in SeqsUpTo(DepNames, MaxDeps), x \in {"None", "pdf"}}

NoResult == [outcome |-> "none", type |-> "-", names |-> <<>>, hint |-> "-"]

\* the wrapper's frame before the decorator ran, for arguments a and
\* import outcomes imp
RdFrame(a, imp) ==
    [arg |-> a, import |-> imp, deps |-> <<>>, pc |-> "undecorated", i |-> 0,
     missing |-> <<>>, calls |-> 0, result |-> NoResult]

\* nothing is decorated
RdNone ==
    rd = RdFrame([isstr |-> FALSE, str |-> "", list |-> <<>>, extras |-> "None"],
                 [n \in DepNames |-> [kind |-> "ok", mentions |-> {}]])

RdInit ==
    \E a \in RdArgs, imp \in [DepNames -> ImportOutcomes] : rd = RdFrame(a, imp)

Init ==
    /\ LzInit
    /\ RdNone
    /\ environ \in {[present |-> FALSE, value |-> ""],
                    [present |-> TRUE, value |-> ""],
                    [present |-> TRUE, value |-> "sk-key"]}
    /\ constructed = "no"
    /\ client = NoClient
    /\ op = "none"
    /\ pc = "idle"
    /\ image = NoImage
    /\ encoded_len = 0
    /\ encodes = <<>>
    /\ resizes = <<>>
    /\ sent = <<>>
    /\ response = NoResponse
    /\ outcome = "none"
    /\ exc = NoExc
    /\ text = EmptyStr
    /\ regions = <<>>
    /\ elements = <<>>

\* ----------------------------------------------------------- constructor
KeyOkNoEmptyCheck(env) == env.present

\* the assert of __init__
KeyOk(env) == env.present /\ env.value # ""

Construct ==
    /\ UNCHANGED util_vars
    /\ constructed = "no"
    /\ IF KeyOk(environ)
       THEN /\ client' = [api_key |-> environ.value]
            /\ constructed' = "ok"
       ELSE /\ client' = client
            /\ constructed' = "AssertionError"
    /\ UNCHANGED <<environ, op, pc, image, encoded_len, encodes, resizes,
                   sent, response, outcome, exc, text, regions, elements>>

\* ------------------------------------------------------------ invocation
\* a caller invokes one of the three methods on the constructed agent
Call(o, w, h) ==
    /\ UNCHANGED util_vars
    /\ constructed = "ok"
    /\ pc = "idle"
    /\ op' = o
    /\ pc' = "encode"
    /\ image' = [width |-> w, height |-> h]
    /\ UNCHANGED <<environ, constructed, client, encoded_len, encodes, resizes,
                   sent, response, outcome, exc, text, regions, elements>>

\* the invocation is over (it returned or raised): its frame is dropped and
\* the agent can be invoked again
Finish ==
    /\ UNCHANGED util_vars
    /\ pc = "done"
    /\ op' = "none"
    /\ pc' = "idle"
    /\ image' = NoImage
    /\ encoded_len' = 0
    /\ encodes' = <<>>
    /\ resizes' = <<>>
    /\ sent' = <<>>
    /\ response' = NoResponse
    /\ outcome' = "none"
    /\ exc' = NoExc
    /\ text' = EmptyStr
    /\ regions' = <<>>
    /\ elements' = <<>>
    /\ UNCHANGED <<environ, constructed, client>>

\* ------------------------------------------------------ encode and resize
\* len(base64.b64encode(b)) for len(b) = n
B64Len(n) == 4 * ((n + 2) \div 3)

\* image.save(buffer, format="PNG"); base64.b64encode(...)
Encode ==
    /\ UNCHANGED util_vars
    /\ pc = "encode"
    /\ \E n \in PngLens :
          /\ encoded_len' = B64Len(n)
          /\ encodes' = Append(encodes, B64Len(n))
    /\ pc' = IF op = "text" THEN "request" ELSE "loop"
    /\ UNCHANGED <<environ, constructed, client, op, image, resizes, sent,
                   response, outcome, exc, text, regions, elements>>

TooLargeRawBytes(len) == (len \div 4) * 3 > Threshold

TooLargeInclusive(len) == len >= Threshold

\* img_size_mb > 20, with img_size_mb = len(encoded_image) / 1024 / 1024
\* (the divisions by powers of two are exact in floating point)
TooLarge(len) == len > Threshold

ScaleRounded(d) == (3 * d + 2) \div 4

\* int(d * 0.75)
Scale(d) == (3 * d) \div 4

\* the loop body: image.resize(...) raises on a target dimension below 1
LoopResize ==
    /\ UNCHANGED util_vars
    /\ pc = "loop"
    /\ TooLarge(encoded_len)
    /\ LET w == Scale(image.width)
           h == Scale(image.height)
       IN IF w < 1 \/ h < 1
          THEN /\ outcome' = "raised"
               /\ exc' = [type |-> "ValueError", at |-> "resize"]
               /\ pc' = "done"
               /\ UNCHANGED <<image, resizes>>
          ELSE /\ image' = [width |-> w, height |-> h]
               /\ resizes' = Append(resizes, [from |-> image, to |-> image'])
               /\ pc' = "encode"
               /\ UNCHANGED <<outcome, exc>>
    /\ UNCHANGED <<environ, constructed, client, op, encoded_len, encodes,
                   sent, response, text, regions, elements>>

LoopExit ==
    /\ UNCHANGED util_vars
    /\ pc = "loop"
    /\ ~TooLarge(encoded_len)
    /\ pc' = "request"
    /\ UNCHANGED <<environ, constructed, client, op, image, encoded_len,
                   encodes, resizes, sent, response, outcome, exc, text,
                   regions, elements>>

\* --------------------------------------------------------------- request
NextAfterRequestResend(o) == "encode"

\* the statement that follows self.client.chat.completions.create(...)
NextAfterRequest(o) == IF o = "text" THEN "return_text" ELSE "validate"

\* one completion request carrying encoded_image; the service answers with
\* a message content, or the call raises and the error propagates
Request ==
    /\ UNCHANGED util_vars
    /\ pc = "request"
    /\ sent' = Append(sent, [payload |-> encoded_len,
                             n_encode |-> Len(encodes),
                             n_resize |-> Len(resizes)])
    /\ \/ /\ \E c \in Contents : response' = c
          /\ pc' = NextAfterRequest(op)
          /\ UNCHANGED <<outcome, exc>>
       \/ /\ outcome' = "raised"
          /\ exc' = [type |-> "APIError", at |-> "request"]
          /\ pc' = "done"
          /\ UNCHANGED response
    /\ UNCHANGED <<environ, constructed, client, op, image, encoded_len,
                   encodes, resizes, text, regions, elements>>

TextResultUnchecked(c) == c

\* "" if not content else content
TextResult(c) == IF Falsy(c) THEN EmptyStr ELSE c

ReturnText ==
    /\ UNCHANGED util_vars
    /\ pc = "return_text"
    /\ text' = TextResult(response)
    /\ outcome' = "returned"
    /\ pc' = "done"
    /\ UNCHANGED <<environ, constructed, client, op, image, encoded_len,
                   encodes, resizes, sent, response, exc, regions, elements>>

\* ------------------------------------------------- response validation
\* d[k] = v on a dict kept as its items in insertion order
DictSet(d, k, v) ==
    IF \E i \in 1..Len(d) : d[i].key = k
    THEN [i \in 1..Len(d) |->
             IF d[i].key = k THEN [key |-> k, val |-> v] ELSE d[i]]
    ELSE Append(d, [key |-> k, val |-> v])

RECURSIVE DictFromPairs(_)
\* the dict json.loads builds from an object's members: a repeated key keeps
\* its first position and its last value
DictFromPairs(ps) ==
    IF ps = <<>> THEN <<>>
    ELSE DictSet(DictFromPairs(SubSeq(ps, 1, Len(ps) - 1)),
                 ps[Len(ps)].key, ps[Len(ps)].val)

\* json.loads(content) for a content that is JSON
json_loads(c) ==
    IF c.top = "obj"
    THEN [type |-> "dict", items |-> DictFromPairs(c.pairs)]
    ELSE [type |-> c.top, items |-> <<>>]

\* [] if not content else json.loads(content)
paragraph_list(c) ==
    IF Falsy(c) THEN [type |-> "list", items |-> <<>>] ELSE json_loads(c)

TooManyKeysAboveTwo(d) == Len(d.items) > 2

\* len(paragraph_list) > 1
TooManyKeys(d) == Len(d.items) > 1

\* enumerate() accepts a list, a str (its characters) and a dict (its keys)
Iterable(v) == v.t \in {"arr", "str", "obj"}

Rectangle(x1, y1, x2, y2) == [x1 |-> x1, y1 |-> y1, x2 |-> x2, y2 |-> y2]

TextRegion(bbox, t, source) == [bbox |-> bbox, text |-> t, source |-> source]

BuildRegionsFromOne(s) ==
    [k \in 1..Len(s) |-> TextRegion(Rectangle(k, k, k + 1, k + 1), s[k], "OCR_GPT4O")]

\* the list comprehension over enumerate(paragraph_list): i = k - 1
BuildRegions(s) ==
    [k \in 1..Len(s) |->
        TextRegion(Rectangle(k - 1, k - 1, k, k), s[k], "OCR_GPT4O")]

Raised(type, at) ==
    [outcome |-> "raised", exc |-> [type |-> type, at |-> at], regions |-> <<>>]

LayoutResultEmptyObjectOk(c) ==
    IF ~Falsy(c) /\ c.kind = "invalid" THEN Raised("JSONDecodeError", "json.loads")
    ELSE LET pl == paragraph_list(c) IN
         IF pl.type # "dict" THEN Raised("ValueError", "isinstance")
         ELSE IF TooManyKeys(pl) THEN Raised("ValueError", "len")
         ELSE IF pl.items = <<>>
              THEN [outcome |-> "returned", exc |-> NoExc, regions |-> <<>>]
         ELSE LET v == pl.items[1].val IN
              IF ~Iterable(v) THEN Raised("TypeError", "enumerate")
              ELSE [outcome |-> "returned", exc |-> NoExc,
                    regions |-> BuildRegions(v.items)]

\* lines 117-144 of get_layout_from_image on content c
LayoutResult(c) ==
    IF ~Falsy(c) /\ c.kind = "invalid" THEN Raised("JSONDecodeError", "json.loads")
    ELSE LET pl == paragraph_list(c) IN
         IF pl.type # "dict" THEN Raised("ValueError", "isinstance")
         ELSE IF TooManyKeys(pl) THEN Raised("ValueError", "len")
         ELSE IF pl.items = <<>> THEN Raised("ValueError", "extract")
         ELSE LET v == pl.items[1].val IN
              IF ~Iterable(v) THEN Raised("TypeError", "enumerate")
              ELSE [outcome |-> "returned", exc |-> NoExc,
                    regions |-> BuildRegions(v.items)]

ValidateLayout ==
    /\ UNCHANGED util_vars
    /\ pc = "validate"
    /\ LET r == LayoutResult(response) IN
          /\ outcome' = IF op = "elements" /\ r.outcome = "returned"
                        THEN outcome ELSE r.outcome
          /\ exc' = r.exc
          /\ regions' = r.regions
          /\ pc' = IF op = "elements" /\ r.outcome = "returned"
                   THEN "map" ELSE "done"
    /\ UNCHANGED <<environ, constructed, client, op, image, encoded_len,
                   encodes, resizes, sent, response, text, elements>>

\* ------------------------------------------------------ layout elements
build_layout_element(bbox, t, source, element_type) ==
    [bbox |-> bbox, text |-> t, source |-> source, type |-> element_type]

ElementsOfSkippingFirst(rs) ==
    [k \in 1..(Len(rs) - 1) |->
        build_layout_element(rs[k + 1].bbox, rs[k + 1].text, rs[k + 1].source,
                             "UncategorizedText")]

\* the list comprehension over ocr_regions
ElementsOf(rs) ==
    [k \in 1..Len(rs) |->
        build_layout_element(rs[k].bbox, rs[k].text, rs[k].source,
                             "UncategorizedText")]

MapElements ==
    /\ UNCHANGED util_vars
    /\ pc = "map"
    /\ elements' = ElementsOf(regions)
    /\ outcome' = "returned"
    /\ pc' = "done"
    /\ UNCHANGED <<environ, constructed, client, op, image, encoded_len,
                   encodes, resizes, sent, response, exc, text, regions>>

\* --------------------------------------------------------- specification
Next ==
    \/ Construct
    \/ \E o \in {"text", "layout", "elements"}, w \in 1..MaxDim, h \in 1..MaxDim :
          Call(o, w, h)
    \/ Finish
    \/ Encode
    \/ LoopResize
    \/ LoopExit
    \/ Request
    \/ ReturnText
    \/ ValidateLayout
    \/ MapElements

Spec == Init /\ [][Next]_vars

\* ------------------------------------------------------- lazyproperty
\* no agent is constructed and no key is set
OcrNone ==
    /\ environ = [present |-> FALSE, value |-> ""]
    /\ constructed = "no"
    /\ client = NoClient
    /\ op = "none"
    /\ pc = "idle"
    /\ image = NoImage
    /\ encoded_len = 0
    /\ encodes = <<>>
    /\ resizes = <<>>
    /\ sent = <<>>
    /\ response = NoResponse
    /\ outcome = "none"
    /\ exc = NoExc
    /\ text = EmptyStr
    /\ regions = <<>>
    /\ elements = <<>>

\* obj.__dict__.get(self._name): None when the item is absent
DictGet(d) == IF d = Absent THEN "None" ELSE d

\* __get__(obj, type) on an instance: obj.fget
LzGet(o) ==
    /\ Len(lz.gets[o]) < MaxAccesses
    /\ LET value == DictGet(lz.dict[o]) IN
       IF value = "None"
       THEN \E v \in PyValues :
               lz' = [lz EXCEPT !.evals[o] = Append(@, v),
                                !.dict[o] = v,
                                !.gets[o] = Append(@, v),
                                !.ret = v,
                                !.exc = "-"]
       ELSE lz' = [lz EXCEPT !.gets[o] = Append(@, value),
                             !.ret = value,
                             !.exc = "-"]
    /\ UNCHANGED <<ocr_vars, rd>>

\* __get__(None, type): Obj.fget returns the descriptor
LzClassGet ==
    /\ lz' = [lz EXCEPT !.ret = "descriptor", !.exc = "-"]
    /\ UNCHANGED <<ocr_vars, rd>>

\* __set__(obj, value): obj.fget = value
LzSet(o, v) ==
    /\ lz' = [lz EXCEPT !.exc = "AttributeError", !.ret = "-"]
    /\ UNCHANGED <<ocr_vars, rd>>

InitLazy == OcrNone /\ LzInit /\ RdNone

NextLazy ==
    \/ \E o \in Objs : LzGet(o)
    \/ LzClassGet
    \/ \E o \in Objs, v \in PyValues : LzSet(o, v)

SpecLazy == InitLazy /\ [][NextLazy]_vars

\* ------------------------------------------------ requires_dependencies
\* if isinstance(dependencies, str): dependencies = [dependencies]
Normalize(arg) == IF arg.isstr THEN <<arg.str>> ELSE arg.list

\* dependency_exists(dependency): "True", "False", or "raise" when the
\* import raises something that `except ImportError` does not catch
dependency_exists(dep, imp) ==
    IF imp[dep].kind = "ok" THEN "True"
    ELSE IF imp[dep].kind = "ImportError"
         THEN (IF dep \in imp[dep].mentions THEN "False" ELSE "True")
         ELSE "raise"

AppendMissingFirstOnly(ms, dep) == IF ms = <<>> THEN <<dep>> ELSE ms

\* missing_deps.append(dep)
AppendMissing(ms, dep) == Append(ms, dep)

\* requires_dependencies(dependencies, extras)(func)
Decorate ==
    /\ rd.pc = "undecorated"
    /\ rd' = [rd EXCEPT !.deps = Normalize(rd.arg), !.pc = "idle"]
    /\ UNCHANGED <<ocr_vars, lz>>

\* wrapper(*args, **kwargs) is called
RdCall ==
    /\ rd.pc = "idle"
    /\ rd' = [rd EXCEPT !.pc = "loop", !.i = 1, !.missing = <<>>]
    /\ UNCHANGED <<ocr_vars, lz>>

\* one iteration of `for dep in dependencies`
RdCheck ==
    /\ rd.pc = "loop"
    /\ rd.i <= Len(rd.deps)
    /\ LET dep == rd.deps[rd.i]
           e == dependency_exists(dep, rd.import)
       IN IF e = "raise"
          THEN rd' = [rd EXCEPT !.result = [outcome |-> "raised",
                                            type |-> "OtherError",
                                            names |-> <<>>, hint |-> "-"],
                                !.pc = "done"]
          ELSE rd' = [rd EXCEPT !.missing = IF e = "False"
                                            THEN AppendMissing(@, dep) ELSE @,
                                !.i = @ + 1]
    /\ UNCHANGED <<ocr_vars, lz>>

\* after the loop: raise ImportError or return func(*args, **kwargs)
RdDecide ==
    /\ rd.pc = "loop"
    /\ rd.i > Len(rd.deps)
    /\ IF Len(rd.missing) > 0
       THEN rd' = [rd EXCEPT !.result = [outcome |-> "raised",
                                         type |-> "ImportError",
                                         names |-> rd.missing,
                                         hint |-> IF rd.arg.extras # "None"
                                                  THEN "extras" ELSE "names"],
                             !.pc = "done"]
       ELSE rd' = [rd EXCEPT !.calls = @ + 1,
                             !.result = [outcome |-> "returned", type |-> "-",
                                         names |-> <<>>, hint |-> "-"],
                             !.pc = "done"]
    /\ UNCHANGED <<ocr_vars, lz>>

\* the invocation is over; the wrapper can be called again
RdFinish ==
    /\ rd.pc = "done"
    /\ rd' = [rd EXCEPT !.pc = "idle", !.i = 0, !.missing = <<>>, !.calls = 0,
                        !.result = NoResult]
    /\ UNCHANGED <<ocr_vars, lz>>

InitDeps == OcrNone /\ LzInit /\ RdInit

NextDeps ==
    \/ Decorate
    \/ RdCall
    \/ RdCheck
    \/ RdDecide
    \/ RdFinish

SpecDeps == InitDeps /\ [][NextDeps]_vars

\* ---------------------------------------------------------------- claims
InLayout == op \in {"layout", "elements"}

\* lines 117-144 of get_layout_from_image have run on a received content
LayoutAnswered ==
    InLayout /\ pc \in {"map", "done"} /\ response.kind # "pending"

IsObject(c) == c.kind = "json" /\ c.top = "obj"

\* the keys of the JSON object as written in the response text
WrittenKeys(c) == {c.pairs[i].key : i \in 1..Len(c.pairs)}

\* the value a JSON object with one key gives it: the last one written
SoleValue(c) == c.pairs[Len(c.pairs)].val

\* C1: when the response content is null or the empty string,
\* get_layout_from_image returns an empty list of Text Region and raises
\* no error.
C1_EmptyContentGivesEmptyList ==
    (LayoutAnswered /\ response.kind \in {"null", "empty"})
        => (outcome # "raised" /\ exc = NoExc /\ regions = <<>>)

\* C2: for a response that is a JSON object with exactly one key whose value
\* is not an array (a string, a number, a nested object),
\* get_layout_from_image raises ValueError and returns no Text Region.
C2_NonListValueRaisesValueError ==
    (/\ LayoutAnswered
     /\ IsObject(response)
     /\ Cardinality(WrittenKeys(response)) = 1
     /\ SoleValue(response).t # "arr")
        => (outcome = "raised" /\ exc.type = "ValueError" /\ regions = <<>>)

\* C3: for a response that is a JSON object with two or more keys,
\* get_layout_from_image raises ValueError and returns no Text Region,
\* whatever the values of the keys are.
C3_MultiKeyRaisesValueError ==
    (/\ LayoutAnswered
     /\ IsObject(response)
     /\ Cardinality(WrittenKeys(response)) >= 2)
        => (/\ outcome = "raised"
            /\ exc.type = "ValueError"
            /\ regions = <<>>
            /\ elements = <<>>)

C3_Witness ==
    /\ op = "layout"
    /\ pc = "done"
    /\ IsObject(response)
    /\ Cardinality(WrittenKeys(response)) = 2
    /\ response.pairs[1].val.t = "arr"
    /\ Len(response.pairs[1].val.items) = 2
    /\ exc.type = "ValueError"

\* C4: for a response that is a JSON object with exactly one key mapping to
\* an array of n paragraph strings, get_layout_from_image returns exactly n
\* Text Regions in response order: region i (from 0) has the text of
\* paragraph i, the source OCR_GPT4O and the bbox (i, i, i+1, i+1), so the
\* bboxes are pairwise distinct and increase with the index.
C4_OneRegionPerParagraph ==
    (/\ LayoutAnswered
     /\ IsObject(response)
     /\ Cardinality(WrittenKeys(response)) = 1
     /\ SoleValue(response).t = "arr")
        => LET ps == SoleValue(response).items IN
           /\ exc = NoExc
           /\ outcome # "raised"
           /\ Len(regions) = Len(ps)
           /\ \A i \in 0..(Len(ps) - 1) :
                 /\ regions[i + 1].text = ps[i + 1]
                 /\ regions[i + 1].source = "OCR_GPT4O"
                 /\ regions[i + 1].bbox = [x1 |-> i, y1 |-> i,
                                           x2 |-> i + 1, y2 |-> i + 1]
           /\ \A i, j \in 1..Len(regions) :
                 i < j => regions[i].bbox.x1 < regions[j].bbox.x1

C4_Witness ==
    /\ op = "layout"
    /\ pc = "done"
    /\ outcome = "returned"
    /\ IsObject(response)
    /\ Cardinality(WrittenKeys(response)) = 1
    /\ SoleValue(response) = [t |-> "arr", items |-> <<"a", "b">>]
    /\ Len(regions) = 2
    /\ regions[1].text = "a"
    /\ regions[2].text = "b"

\* C5: whenever get_layout_from_image issues the recognition request, the
\* base64 payload it carries is at most 20 MiB, whatever the starting image
\* and the number of resize iterations before the request.
C5_SentPayloadWithinThreshold ==
    InLayout =>
        \A i \in 1..Len(sent) : sent[i].payload <= MaxMb * 1024 * 1024

C5_Witness ==
    /\ InLayout
    /\ Len(sent) = 1
    /\ sent[1].n_resize = 2
    /\ sent[1].payload = MaxMb * 1024 * 1024

\* C6: for an image whose first encoded payload is at or below the 20 MiB
\* threshold (also exactly equal to it), get_layout_from_image encodes
\* exactly once and resizes never before the request is sent.
C6_FittingImageEncodedOnce ==
    (InLayout /\ Len(encodes) >= 1 /\ encodes[1] <= MaxMb * 1024 * 1024)
        => (/\ Len(encodes) = 1
            /\ resizes = <<>>
            /\ pc # "encode"
            /\ \A i \in 1..Len(sent) :
                  sent[i].n_encode = 1 /\ sent[i].n_resize = 0)

C6_Witness ==
    /\ InLayout
    /\ image.width >= 2
    /\ image.height >= 2
    /\ encodes = <<MaxMb * 1024 * 1024>>
    /\ Len(sent) = 1

\* C7: for an image that starts above the threshold, every resize iteration
\* strictly reduces width and height (new = int(0.75 * old)), the payload
\* is encoded again after each resize, and the loop stops at the first
\* iteration after which the encoded size is at or below the threshold,
\* with no resize after that.
C7_ResizeUntilFits ==
    (InLayout /\ Len(encodes) >= 1 /\ encodes[1] > MaxMb * 1024 * 1024)
        => (/\ \A i \in 1..Len(resizes) :
                  LET f == resizes[i].from
                      t == resizes[i].to
                  IN /\ 4 * t.width <= 3 * f.width
                     /\ 3 * f.width < 4 * (t.width + 1)
                     /\ 4 * t.height <= 3 * f.height
                     /\ 3 * f.height < 4 * (t.height + 1)
                     /\ t.width < f.width
                     /\ t.height < f.height
                     /\ i > 1 => f = resizes[i - 1].to
                     /\ encodes[i] > MaxMb * 1024 * 1024
            /\ Len(encodes) = Len(resizes) + (IF pc = "encode" THEN 0 ELSE 1)
            /\ \A i \in 1..Len(encodes) :
                  encodes[i] <= MaxMb * 1024 * 1024
                      => (i = Len(encodes) /\ pc # "encode")
            /\ \A i \in 1..Len(sent) :
                  sent[i].payload = encodes[Len(encodes)])

C7_Witness ==
    /\ InLayout
    /\ Len(resizes) = 2
    /\ Len(encodes) = 3
    /\ encodes[1] > MaxMb * 1024 * 1024
    /\ encodes[2] > MaxMb * 1024 * 1024
    /\ encodes[3] <= MaxMb * 1024 * 1024
    /\ Len(sent) = 1

\* C8: the downscaling loop of get_layout_from_image never produces an
\* error: for every starting image with width >= 1 and height >= 1 each
\* iteration ends in another retry or in loop exit, and the image it encodes
\* again has positive width and height.
C8_DownscalingNeverErrors ==
    InLayout =>
        (/\ exc.at # "resize"
         /\ pc = "encode" => (image.width >= 1 /\ image.height >= 1))

\* C9: each invocation of get_text_from_image, get_layout_from_image and
\* get_layout_elements_from_image issues at most one completion request; in
\* paragraph extraction every resize and encoding happens before that
\* request and none after it.
C9_AtMostOneRequest ==
    /\ Len(sent) <= 1
    /\ Len(sent) = 1 =>
          (/\ sent[1].n_encode = Len(encodes)
           /\ sent[1].n_resize = Len(resizes)
           /\ pc \notin {"encode", "loop", "request"})

C9_Witness ==
    /\ op = "elements"
    /\ pc = "done"
    /\ outcome = "returned"
    /\ Len(sent) = 1
    /\ Len(resizes) >= 1
    /\ Len(elements) = 2

\* C10: constructing OCRAgentGPT4O with OPENAI_API_KEY unset or empty fails
\* at once: no client is created, no request is attempted and no usable
\* instance results.
C10_NoKeyNoInstance ==
    (constructed # "no" /\ (~environ.present \/ environ.value = ""))
        => (/\ constructed = "AssertionError"
            /\ client = NoClient
            /\ op = "none"
            /\ pc = "idle"
            /\ sent = <<>>)

C10_Witness ==
    /\ constructed = "AssertionError"
    /\ environ.present
    /\ environ.value = ""

\* C11: get_text_from_image returns the empty string when the response
\* content is null or empty and the content string unchanged otherwise; it
\* never raises because of absent content.
C11_TextIsContentOrEmpty ==
    (op = "text" /\ response.kind # "pending" /\ pc = "done")
        => (/\ outcome = "returned"
            /\ exc = NoExc
            /\ response.kind \in {"null", "empty"} => text.kind = "empty"
            /\ response.kind \notin {"null", "empty"} => text = response)

C11_Witness ==
    /\ op = "text"
    /\ pc = "done"
    /\ response.kind = "null"
    /\ outcome = "returned"
    /\ text.kind = "empty"

\* C12: get_layout_elements_from_image returns one layout element per Text
\* Region that get_layout_from_image returned, in the same order, each of
\* type uncategorized-text and with the region's bbox, text and source
\* unchanged; it validates nothing more, so it fails exactly when
\* get_layout_from_image fails.
C12_OneElementPerRegion ==
    (op = "elements" /\ pc = "done")
        => (/\ (outcome = "raised") <=> (exc # NoExc)
            /\ exc.at \in {"-", "resize", "request", "json.loads", "isinstance",
                           "len", "extract", "enumerate"}
            /\ outcome = "returned" =>
                  /\ Len(sent) = 1
                  /\ Len(elements) = Len(regions)
                  /\ \A k \in 1..Len(regions) :
                        /\ elements[k].type = "UncategorizedText"
                        /\ elements[k].bbox = regions[k].bbox
                        /\ elements[k].text = regions[k].text
                        /\ elements[k].source = regions[k].source
            /\ outcome = "raised" => elements = <<>>
            /\ response.kind # "pending" =>
                  LET r == LayoutResult(response) IN
                  /\ outcome = r.outcome
                  /\ exc = r.exc
                  /\ regions = r.regions)

C12_Witness ==
    /\ op = "elements"
    /\ pc = "done"
    /\ outcome = "returned"
    /\ Len(regions) = 2
    /\ Len(elements) = 2
    /\ elements[1].text = "a"
    /\ elements[2].text = "b"

\* C15: a response that is the empty JSON object {} passes the
\* more-than-one-key check and fails at the extraction of the sole value, so
\* get_layout_from_image raises ValueError and returns no list; the only
\* responses that yield a result are JSON objects with exactly one key.
C15_OnlyOneKeyObjectsYieldResult ==
    LayoutAnswered =>
        (/\ (IsObject(response) /\ response.pairs = <<>>)
                => (/\ outcome = "raised"
                    /\ exc = [type |-> "ValueError", at |-> "extract"]
                    /\ regions = <<>>)
         /\ exc = NoExc
                => (/\ IsObject(response)
                    /\ Cardinality(WrittenKeys(response)) = 1))

C15_Witness ==
    /\ op = "layout"
    /\ pc = "done"
    /\ IsObject(response)
    /\ response.pairs = <<>>
    /\ outcome = "raised"
    /\ exc.at = "extract"

\* C13: over any sequence of accesses on one instance the method decorated
\* with lazyproperty is evaluated on the first access only; every later
\* access returns the same cached value without evaluating it again, for
\* every value the method can return (None and other falsy values also).
C13_EvaluatedOnFirstAccessOnly ==
    \A o \in Objs :
        /\ Len(lz.evals[o]) <= 1
        /\ \A i \in 1..Len(lz.gets[o]) : lz.gets[o][i] = lz.gets[o][1]

\* a dependency is missing: its import raises an ImportError naming it
DepMissing(d) ==
    rd.import[d].kind = "ImportError" /\ d \in rd.import[d].mentions

DepCrashes(d) == rd.import[d].kind = "OtherError"

Listed == {rd.deps[i] : i \in 1..Len(rd.deps)}

\* C14: a function wrapped by requires_dependencies is invoked only when
\* every listed dependency exists; if at least one is missing the wrapper
\* raises ImportError naming all missing dependencies and the function is
\* not called. A dependency whose import raises an ImportError that does not
\* contain its name counts as existing.
C14_MissingDependenciesNamed ==
    rd.pc = "done" =>
        (/\ rd.calls >= 1 => \A d \in Listed : ~DepMissing(d)
         /\ (\E d \in Listed : DepMissing(d))
                => (/\ rd.result.outcome = "raised"
                    /\ rd.result.type = "ImportError"
                    /\ rd.result.names = SelectSeq(rd.deps, DepMissing)
                    /\ rd.calls = 0)
         /\ (\A d \in Listed : rd.import[d].kind = "ok"
                                \/ (/\ rd.import[d].kind = "ImportError"
                                    /\ d \notin rd.import[d].mentions))
                => (rd.result.outcome = "returned" /\ rd.calls = 1))

\* C14 as amended: the same, as long as no import of a listed dependency
\* raises an exception other than ImportError; such an exception leaves the
\* wrapper as it is and the function is not called.
C14_MissingDependenciesNamedUnlessImportCrashes ==
    rd.pc = "done" =>
        (/\ rd.calls >= 1 =>
               \A d \in Listed : ~DepMissing(d) /\ ~DepCrashes(d)
         /\ rd.calls <= 1
         /\ ((\E d \in Listed : DepMissing(d))
                /\ (\A d \in Listed : ~DepCrashes(d)))
                => (/\ rd.result.outcome = "raised"
                    /\ rd.result.type = "ImportError"
                    /\ rd.result.names = SelectSeq(rd.deps, DepMissing)
                    /\ rd.calls = 0)
         /\ (\E d \in Listed : DepCrashes(d))
                => (/\ rd.result.outcome = "raised"
                    /\ rd.result.type = "OtherError"
                    /\ rd.calls = 0)
         /\ (\A d \in Listed : ~DepMissing(d) /\ ~DepCrashes(d))
                => (rd.result.outcome = "returned" /\ rd.calls = 1))

C14_Witness ==
    /\ rd.pc = "done"
    /\ rd.deps = <<"a", "b">>
    /\ DepMissing("a")
    /\ DepMissing("b")
    /\ rd.result.type = "ImportError"
    /\ rd.result.names = <<"a", "b">>
    /\ rd.calls = 0

====
